---------------------------- MODULE Spec2Model ----------------------------
(***************************************************************************)
(* A model of react-sketch-canvas: the ReactSketchCanvas controller        *)
(* (libs/react-sketch-canvas/src/lib/ReactSketchCanvas/index.tsx) and the  *)
(* Canvas surface (src/Canvas/index.tsx).                                  *)
(*                                                                         *)
(* Numbers.  JavaScript numbers are IEEE-754 binary floating point.  The   *)
(* model keeps the format's rule (round to nearest, ties to even, one      *)
(* rounding per arithmetic operation) and shortens the significand to      *)
(* Precision bits.  A number is <<m, e>>, standing for m * 2^e, with       *)
(* m = 0 or 2^(Precision-1) <= m < 2^Precision.  Only non-negative numbers *)
(* occur and the exponent is unbounded (no overflow, no underflow).        *)
(*                                                                         *)
(* State updates.  Under Spec every controller operation runs against the  *)
(* committed component state and its setState updater and completion       *)
(* callback are applied before the next operation starts (one operation    *)
(* per event).                                                             *)
(***************************************************************************)
EXTENDS Integers, Sequences, FiniteSets, TLC

(* ------------------------------ bounds --------------------------------- *)

\* bits of significand of the modelled floating-point format
Precision == 4
\* strokes created (drawn or loaded) in one run
MaxStrokes == 2
\* points of one stroke
MaxPoints == 2
\* labels in currentTexts
MaxTexts == 2
\* the largest reading of the clock
MaxClock == 1
\* strokes of a scene handed to the Canvas
MaxScene == 3
\* setState calls waiting in one batch
MaxPending == 2

(* ------------------------- floating point ------------------------------ *)

RECURSIVE Pow2(_)
Pow2(k) == IF k <= 0 THEN 1 ELSE 2 * Pow2(k - 1)

Zero == <<0, 0>>

\* significands are MinSig .. MaxSig - 1
MaxSig == Pow2(Precision)
MinSig == Pow2(Precision - 1)

\* the number nearest to (n / d) * 2^e, ties to even
RECURSIVE RoundRat(_, _, _)
RoundRat(n, d, e) ==
  IF n = 0 THEN Zero
  ELSE IF n >= d * MaxSig THEN RoundRat(n, 2 * d, e + 1)
  ELSE IF n < d * MinSig THEN RoundRat(2 * n, d, e - 1)
  ELSE LET m  == n \div d
           r  == n % d
           up == (2 * r > d) \/ (2 * r = d /\ m % 2 = 1)
           m2 == IF up THEN m + 1 ELSE m
       IN  IF m2 = MaxSig THEN <<MinSig, e + 1>>
           ELSE <<m2, e>>

Num(n) == RoundRat(n, 1, 0)

FMul(a, b) == RoundRat(a[1] * b[1], 1, a[2] + b[2])

FDiv(a, b) == RoundRat(a[1], b[1], a[2] - b[2])

\* the integers a and b stand for when both are written with the smaller exponent
Aligned(a, b) ==
  LET lo == IF a[2] < b[2] THEN a[2] ELSE b[2]
  IN  <<a[1] * Pow2(a[2] - lo), b[1] * Pow2(b[2] - lo)>>

\* |r - x| <= 2^(2 - Precision) * x: r is x up to the three roundings of
\* (x * s) * (1 / s)
Close(r, x) ==
  LET al == Aligned(r, x)
      df == IF al[1] >= al[2] THEN al[1] - al[2] ELSE al[2] - al[1]
  IN  df * Pow2(Precision - 2) <= al[2]

(* ------------------------- types and props ----------------------------- *)

\* enum CanvasMode of ../types
CanvasMode == {"none", "pen", "eraser", "text"}

\* the truth value JavaScript gives a CanvasMode: eraser is the falsy member
Truthy(mode) == mode # "eraser"

strokeColor == "red"
strokeWidth == 4
eraserWidth == 8

P1 == [x |-> Num(3), y |-> Num(7)]
P2 == [x |-> Num(7), y |-> Num(3)]

\* the points getCoordinates hands to the controller, and the host's (scale 1) points
Points == {P1, P2}

\* the positive scales the host passes to adjustProportion
Scales == {Num(1), Num(3), Num(5)}

\* strokes the host passes to loadPaths and adjustProportion, in scale 1
HostStroke(m, pts) ==
  [drawMode |-> m,
   strokeColor |-> IF Truthy(m) THEN strokeColor ELSE "#000000",
   strokeWidth |-> IF Truthy(m) THEN strokeWidth ELSE eraserWidth,
   paths |-> pts]

HostStrokes == {HostStroke("pen", <<P2, P1>>), HostStroke("eraser", <<P1>>)}

HostPaths == {<<>>} \cup {<<s>> : s \in HostStrokes}

\* labels the host passes to loadTexts, adjustProportion and onTextChange
HostLabels == {[id |-> 0, text |-> "A", position |-> P2]}

\* the labels the editing widget reports: the same id with a new text and position,
\* and another id
EditedLabels ==
  {[id |-> 0, text |-> "B", position |-> P1], [id |-> 7, text |-> "B", position |-> P2]}

HostTexts == {<<>>} \cup {<<t>> : t \in HostLabels}

(* --------------------- ReactSketchCanvas: the state -------------------- *)

initialState ==
  [drawMode |-> "none",
   isDrawing |-> FALSE,
   resetStack |-> <<>>,
   undoStack |-> <<>>,
   currentPaths |-> <<>>,
   currentTexts |-> <<>>,
   imageScale |-> Num(1)]

\* JSON.parse(JSON.stringify(v)): a deep copy of a value made of finite numbers,
\* strings, arrays and objects without undefined fields (the only values here)
JSONCopy(v) == v

ScalePoint(pt, imScale) == [x |-> FMul(pt.x, imScale), y |-> FMul(pt.y, imScale)]

ScalePoints(pts, imScale) == [i \in DOMAIN pts |-> ScalePoint(pts[i], imScale)]

canonicalPathsToImage(oldPaths, imScale) ==
  LET transformedPaths == JSONCopy(oldPaths)
  IN  [i \in DOMAIN transformedPaths |->
         [transformedPaths[i] EXCEPT !.paths = ScalePoints(@, imScale)]]

canonicalTextsToImage(oldTexts, imScale) ==
  LET transformedTexts == JSONCopy(oldTexts)
  IN  [i \in DOMAIN transformedTexts |->
         [transformedTexts[i] EXCEPT !.position = ScalePoint(@, imScale)]]

isDrawingMode(st) == st.drawMode = "pen" \/ st.drawMode = "eraser"

\* the arguments liftUpdatedStateUp gives onUpdate when this.state is st
liftUpdatedStateUp(st) ==
  [paths |-> canonicalPathsToImage(st.currentPaths, FDiv(Num(1), st.imageScale)),
   texts |-> canonicalTextsToImage(st.currentTexts, FDiv(Num(1), st.imageScale))]

\* an export that scales up once more
exportPathsScalesUp(st) == canonicalPathsToImage(st.currentPaths, st.imageScale)

exportPaths(st) == canonicalPathsToImage(st.currentPaths, FDiv(Num(1), st.imageScale))

\* an export of the labels as they are stored
exportTextsStored(st) == st.currentTexts

exportTexts(st) == canonicalTextsToImage(st.currentTexts, FDiv(Num(1), st.imageScale))

Last(s) == s[Len(s)]

Front(s) == SubSeq(s, 1, Len(s) - 1)

(* ------------- ReactSketchCanvas: the setState updaters ---------------- *)

\* handlePointerDown, the text label insertion
TextInsertDraft(st, point, now) ==
  [st EXCEPT !.isDrawing = FALSE,
             !.undoStack = <<>>,
             !.currentTexts = Append(@, [id |-> now, text |-> "Text", position |-> point])]

\* a stroke that takes the pen's colour and width in every mode
NewStrokePenStyle(st, point, now, tag, withTs) ==
  [drawMode |-> st.drawMode,
   strokeColor |-> strokeColor,
   strokeWidth |-> strokeWidth,
   paths |-> <<point>>,
   tag |-> tag]

\* the stroke handlePointerDown builds
NewStroke(st, point, now, tag, withTs) ==
  LET stroke == [drawMode |-> st.drawMode,
                 strokeColor |-> IF Truthy(st.drawMode) THEN strokeColor ELSE "#000000",
                 strokeWidth |-> IF Truthy(st.drawMode) THEN strokeWidth ELSE eraserWidth,
                 paths |-> <<point>>,
                 tag |-> tag]
  IN  IF withTs THEN [startTimestamp |-> now, endTimestamp |-> 0] @@ stroke ELSE stroke

\* a stroke start that keeps the redo history
StrokeStartKeepsRedo(st, point, now, tag, withTs) ==
  [st EXCEPT !.isDrawing = TRUE,
             !.currentPaths = Append(@, NewStroke(st, point, now, tag, withTs))]

\* handlePointerDown, the start of a stroke
StrokeStartDraft(st, point, now, tag, withTs) ==
  [st EXCEPT !.isDrawing = TRUE,
             !.undoStack = <<>>,
             !.currentPaths = Append(@, NewStroke(st, point, now, tag, withTs))]

\* handlePointerMove; currentPaths is not empty
PointerMoveDraft(st, point) ==
  [st EXCEPT !.currentPaths[Len(st.currentPaths)].paths = Append(@, point)]

PointerUpDraft(st, now, withTs) ==
  IF ~withTs \/ st.currentPaths = <<>>
  THEN [st EXCEPT !.isDrawing = FALSE]
  ELSE [st EXCEPT !.isDrawing = FALSE,
                  !.currentPaths = Append(Front(st.currentPaths),
                                          [endTimestamp |-> now] @@ Last(st.currentPaths))]

FirstWithId(texts, id) ==
  IF \E i \in DOMAIN texts : texts[i].id = id
  THEN CHOOSE i \in DOMAIN texts :
         texts[i].id = id /\ \A j \in 1..(i - 1) : texts[j].id # id
  ELSE 0

TextChangeDraft(st, oldText, newText) ==
  LET idx == FirstWithId(st.currentTexts, oldText.id)
  IN  IF idx = 0 THEN st ELSE [st EXCEPT !.currentTexts[idx] = newText]

SetModeDraft(st, mode) == [st EXCEPT !.drawMode = mode]

\* a rescale whose callback leaves the mode of the reset state
AdjustProportionKeepsMode(imagescale, paths, texts) ==
  [initialState EXCEPT
     !.imageScale = imagescale,
     !.currentPaths = canonicalPathsToImage(paths, imagescale),
     !.currentTexts = canonicalTextsToImage(texts, imagescale)]

\* adjustProportion: resetCanvas, the updater, then setMode(pen) from the callback
AdjustProportionDraft(imagescale, paths, texts) ==
  SetModeDraft([initialState EXCEPT
                  !.imageScale = imagescale,
                  !.currentPaths = canonicalPathsToImage(paths, imagescale),
                  !.currentTexts = canonicalTextsToImage(texts, imagescale)], "pen")

\* a clear that adds the strokes to what resetStack already holds
ClearKeepsGenerations(st) ==
  [st EXCEPT !.resetStack = st.resetStack \o st.currentPaths,
             !.currentPaths = <<>>,
             !.currentTexts = <<>>]

\* clearCanvas
ClearDraft(st) ==
  [st EXCEPT !.resetStack = st.currentPaths,
             !.currentPaths = <<>>,
             !.currentTexts = <<>>]

\* a restore that loses the last stroke
UndoResetDropsLast(st) ==
  [st EXCEPT !.currentPaths = Front(st.resetStack), !.resetStack = <<>>]

\* a restore that keeps the reset stack
UndoResetKeepsStack(st) == [st EXCEPT !.currentPaths = st.resetStack]

\* undo, after a reset
UndoResetDraft(st) ==
  [st EXCEPT !.currentPaths = st.resetStack, !.resetStack = <<>>]

\* a pop that pushes what it popped without looking at it
UndoPopPushesUndefined(st) ==
  IF st.currentPaths = <<>> THEN [st EXCEPT !.undoStack = Append(@, "undefined")]
  ELSE [st EXCEPT !.currentPaths = Front(@),
                  !.undoStack = Append(@, Last(st.currentPaths))]

\* undo, otherwise
UndoPopDraft(st) ==
  IF st.currentPaths = <<>> THEN st
  ELSE [st EXCEPT !.currentPaths = Front(@),
                  !.undoStack = Append(@, Last(st.currentPaths))]

\* a redo that takes the labels away
RedoDropsLabels(st) ==
  IF st.undoStack = <<>> THEN st
  ELSE [st EXCEPT !.undoStack = Front(@),
                  !.currentPaths = Append(@, Last(st.undoStack)),
                  !.currentTexts = <<>>]

\* redo
RedoDraft(st) ==
  IF st.undoStack = <<>> THEN st
  ELSE [st EXCEPT !.undoStack = Front(@),
                  !.currentPaths = Append(@, Last(st.undoStack))]

\* a load that stores the host's coordinates as they are
LoadPathsUnscaled(st, paths) ==
  [st EXCEPT !.currentPaths = @ \o paths]

\* loadPaths
LoadPathsDraft(st, paths) ==
  [st EXCEPT !.currentPaths = @ \o canonicalPathsToImage(paths, st.imageScale)]

LoadTextsDraft(st, texts) ==
  [st EXCEPT !.currentTexts = @ \o canonicalTextsToImage(texts, st.imageScale)]

(* ------------------------ Canvas: the scene ---------------------------- *)

\* paths.filter(path => path.drawMode === CanvasMode.eraser)
eraserPaths(paths) == SelectSeq(paths, LAMBDA path : path.drawMode = "eraser")

\* a step that drops an eraser stroke without starting a group
GroupStepOneGroup(acc, path) ==
  IF ~Truthy(path.drawMode) THEN acc
  ELSE IF acc[1] \in DOMAIN acc[2]
       THEN <<acc[1], [acc[2] EXCEPT ![acc[1]] = Append(@, path)]>>
       ELSE <<acc[1], (acc[1] :> <<path>>) @@ acc[2]>>

\* one step of the reduce that builds pathGroups; acc is <<currentGroup, arrayGroup>>
GroupStep(acc, path) ==
  IF ~Truthy(path.drawMode) THEN <<acc[1] + 1, acc[2]>>
  ELSE IF acc[1] \in DOMAIN acc[2]
       THEN <<acc[1], [acc[2] EXCEPT ![acc[1]] = Append(@, path)]>>
       ELSE <<acc[1], (acc[1] :> <<path>>) @@ acc[2]>>

RECURSIVE GroupFold(_, _)
GroupFold(paths, n) ==
  IF n = 0 THEN <<0, (0 :> <<>>)>> ELSE GroupStep(GroupFold(paths, n - 1), paths[n])

\* the array of stroke groups, indexed from 0; an index never assigned is a hole
pathGroups(paths) == GroupFold(paths, Len(paths))[2]

\* a mask that leaves out the first eraser it should use
MaskUsesSkipsFirst(paths, i) == (i + 1)..(Len(eraserPaths(paths)) - 1)

\* the eraser elements (indices into eraserPaths, from 0) mask i uses
MaskUses(paths, i) == i..(Len(eraserPaths(paths)) - 1)

\* the indices of the masks the <defs> hold
MaskIds(paths) == 0..(Len(eraserPaths(paths)) - 1)

BackgroundRef == "url(#react-sketch-canvas__background)"

CanvasProps ==
  [backgroundImage : {"", "bg.png"},
   canvasColor : {"white", "blue"},
   exportWithBackgroundImage : BOOLEAN]

\* the <svg> the render builds: the background pattern, the fill of the background
\* rect, the masks and the stroke groups with the mask each refers to
Render(props, paths) ==
  [pattern |-> props.backgroundImage # "",
   backgroundFill |-> IF props.backgroundImage # "" THEN BackgroundRef
                      ELSE props.canvasColor,
   masks |-> [i \in MaskIds(paths) |-> MaskUses(paths, i)],
   groups |-> [g \in DOMAIN pathGroups(paths) |->
                 [mask |-> g, paths |-> pathGroups(paths)[g]]]]

\* an export that removes the pattern and leaves the fill
ExportSvgKeepsFill(props, svgCanvas) ==
  IF props.exportWithBackgroundImage THEN svgCanvas
  ELSE [svgCanvas EXCEPT !.pattern = FALSE]

\* exportSvg on a mounted canvas
ExportSvgText(props, svgCanvas) ==
  IF props.exportWithBackgroundImage THEN svgCanvas
  ELSE [svgCanvas EXCEPT !.pattern = FALSE, !.backgroundFill = props.canvasColor]

(* --------------------------- the machine ------------------------------- *)

VARIABLES
  state,                \* this.state of ReactSketchCanvas
  withTimestamp,        \* props.withTimestamp
  allowOnlyPointerType, \* props.allowOnlyPointerType
  listenerType,         \* allowOnlyPointerType as the document's pointerup listener holds it
  pending,              \* the updaters of the setState calls React has not applied yet
  shadow,               \* the state had every batched operation run on its predecessor's result
  lastMouseEvent,       \* Canvas: the position of lastMouseEvent.current
  pointer,              \* the kind of the pointer event just handled, "" after any other
  clock,                \* the reading Date.now() gives
  crashed,              \* an updater has thrown
  lastOp,               \* the operation performed last and the branch it took
  notified,             \* the number of onUpdate calls it made (liftUpdatedStateUp)
  ret,                  \* the value it returned, or NoValue
  nextTag,              \* strokes created so far; a stroke's tag is its identity
  liveTag,              \* the stroke begun by the latest pointerDown and not ended, or 0
  fwd,                  \* 1 after a press that found redo history, 2 after the redo next
  clearUndo,            \* 1 after clearCanvas, 2 after the undo that follows it at once
  preClear,             \* currentPaths as the clearCanvas counted by clearUndo found it
  rescaleIn,            \* the arguments of adjustProportion, while only exports followed
  scen,                 \* progress in the scenario pen A, eraser B, clear, undo, undo
  scenAB                \* currentPaths as the scenario's clearCanvas found it

vars == <<state, withTimestamp, allowOnlyPointerType, listenerType, pending, shadow,
          lastMouseEvent, pointer, clock,
          crashed, lastOp, notified, ret, nextTag, liveTag, fwd, clearUndo, preClear,
          rescaleIn, scen, scenAB>>

NoValue == [none |-> TRUE]
NoEvent == [none |-> TRUE]
NoRescale == [none |-> TRUE]

Op(name, branch) == [name |-> name, branch |-> branch]

\* lastOp keeps the operations the properties below speak of; any other leaves Quiet
Quiet == Op("", "")

Observed ==
  {Op("pointerDown", b) : b \in {"stroke", "text"}}
  \cup {Op("redo", b) : b \in {"empty", "push"}}
  \cup {Op("exportPaths", ""), Op("exportTexts", ""), Op("textChange", "")}
  \cup {Op("loadPaths", ""), Op("loadTexts", ""), Op("rescale", "")}
  \cup {Op("exportSvg", b) : b \in {"ok", "throw"}}

\* pointer events: the point is the one getCoordinates computes from the event
Event(t, b, p, g) == [pointerType |-> t, button |-> b, point |-> p, target |-> g]

Events ==
  {Event("mouse", 0, P1, "svg"), Event("mouse", 0, P2, "svg"),
   Event("touch", 0, P1, "svg"), Event("mouse", 2, P2, "svg"),
   Event("mouse", 0, P2, "text")}

Start(timestamps, pointerTypes) ==
  /\ state = initialState
  /\ withTimestamp \in timestamps
  /\ allowOnlyPointerType \in pointerTypes
  /\ listenerType = allowOnlyPointerType
  /\ pending = <<>>
  /\ shadow = initialState
  /\ lastMouseEvent = NoEvent
  /\ pointer = ""
  /\ clock = 0
  /\ crashed = FALSE
  /\ lastOp = Quiet
  /\ notified = 0
  /\ ret = NoValue
  /\ nextTag = 0
  /\ liveTag = 0
  /\ fwd = 0
  /\ clearUndo = 0
  /\ preClear = <<>>
  /\ rescaleIn = NoRescale
  /\ scen = 0
  /\ scenAB = <<>>

ScenNext(op, st, st2) ==
  CASE scen = 0 /\ op.name = "setMode" /\ st2.drawMode = "pen" -> 1
    [] scen \in {1, 4} /\ op = Op("pointerDown", "stroke") -> scen + 1
    [] scen \in {2, 5} /\ op = Op("pointerMove", "append") -> scen
    [] scen \in {2, 5} /\ op = Op("pointerUp", "end") -> scen + 1
    [] scen = 3 /\ op.name = "setMode" /\ st2.drawMode = "eraser" -> 4
    [] scen = 6 /\ op.name = "clear" -> 7
    [] scen \in {7, 8} /\ op.name = "undo" -> scen + 1
    [] OTHER -> -1

\* what every operation leaves behind: the new state, the notification, the
\* returned value, and the bookkeeping of the history variables
Commit(op, st2, upd, rv, live, ntag, rin) ==
  /\ ~crashed
  /\ state' = st2
  /\ lastOp' = IF op \in Observed THEN op ELSE Quiet
  /\ notified' = upd
  /\ ret' = rv
  /\ liveTag' = live
  /\ nextTag' = ntag
  /\ rescaleIn' = rin
  /\ fwd' = IF op \in {Op("pointerDown", "stroke"), Op("pointerDown", "text")}
                /\ state.undoStack # <<>> THEN 1
            ELSE IF op.name = "redo" /\ fwd = 1 THEN 2 ELSE 0
  /\ clearUndo' = IF op.name = "clear" THEN 1
                  ELSE IF op.name = "undo" /\ clearUndo = 1 THEN 2 ELSE 0
  /\ preClear' = IF op.name = "clear" THEN state.currentPaths
                 ELSE IF op.name = "undo" /\ clearUndo = 1 THEN preClear ELSE <<>>
  /\ scen' = ScenNext(op, state, st2)
  /\ scenAB' = IF ScenNext(op, state, st2) = 7 THEN state.currentPaths
               ELSE IF ScenNext(op, state, st2) \in {8, 9} THEN scenAB ELSE <<>>
  /\ UNCHANGED <<withTimestamp, allowOnlyPointerType, listenerType, pending, shadow,
                 clock, crashed>>

\* an operation that changes nothing of the component state
Skip(op) == Commit(op, state, 0, NoValue, liveTag, nextTag, NoRescale)

Tagged(paths, from) == [i \in DOMAIN paths |-> [tag |-> from + i] @@ paths[i]]

\* an updater throws: React unmounts the component
Throw(op) ==
  /\ ~crashed
  /\ crashed' = TRUE
  /\ lastOp' = IF op \in Observed THEN op ELSE Quiet
  /\ notified' = 0
  /\ ret' = NoValue
  /\ rescaleIn' = NoRescale
  /\ fwd' = 0
  /\ clearUndo' = 0
  /\ preClear' = <<>>
  /\ scen' = -1
  /\ scenAB' = <<>>
  /\ UNCHANGED <<state, withTimestamp, allowOnlyPointerType, listenerType, pending,
                 shadow, clock, nextTag, liveTag>>

(* --------------- ReactSketchCanvas: the operations --------------------- *)

handlePointerDown(point) ==
  IF ~isDrawingMode(state)
  THEN IF state.drawMode = "none"
       THEN Skip(Op("pointerDown", "none"))
       ELSE /\ Len(state.currentTexts) < MaxTexts
            /\ Commit(Op("pointerDown", "text"), TextInsertDraft(state, point, clock),
                      1, NoValue, 0, nextTag, NoRescale)
  ELSE /\ nextTag < MaxStrokes
       /\ Commit(Op("pointerDown", "stroke"),
                 StrokeStartDraft(state, point, clock, nextTag + 1, withTimestamp),
                 1, NoValue, nextTag + 1, nextTag + 1, NoRescale)

handlePointerMove(point) ==
  IF ~state.isDrawing THEN Skip(Op("pointerMove", "idle"))
  ELSE IF state.currentPaths = <<>> THEN Throw(Op("pointerMove", "throw"))
  ELSE /\ Len(Last(state.currentPaths).paths) < MaxPoints
       /\ Commit(Op("pointerMove", "append"), PointerMoveDraft(state, point),
                 1, NoValue, liveTag, nextTag, NoRescale)

handlePointerUp ==
  IF ~state.isDrawing THEN Skip(Op("pointerUp", "idle"))
  ELSE Commit(Op("pointerUp", "end"), PointerUpDraft(state, clock, withTimestamp),
              1, NoValue, 0, nextTag, NoRescale)

handleTextChange(oldText, newText) ==
  Commit(Op("textChange", ""), TextChangeDraft(state, oldText, newText),
         1, NoValue, liveTag, nextTag, NoRescale)

setMode(mode) ==
  Commit(Op("setMode", ""), SetModeDraft(state, mode),
         1, NoValue, liveTag, nextTag, NoRescale)

adjustProportion(imagescale, paths, texts) ==
  /\ nextTag + Len(paths) <= MaxStrokes
  /\ Commit(Op("rescale", ""),
            AdjustProportionDraft(imagescale, Tagged(paths, nextTag), texts),
            2, NoValue, 0, nextTag + Len(paths),
            [scale |-> imagescale, paths |-> Tagged(paths, nextTag), texts |-> texts])

clearCanvas ==
  Commit(Op("clear", ""), ClearDraft(state), 1, NoValue, liveTag, nextTag, NoRescale)

undo ==
  IF Len(state.resetStack) # 0
  THEN Commit(Op("undo", "restore"), UndoResetDraft(state),
              1, NoValue, liveTag, nextTag, NoRescale)
  ELSE Commit(Op("undo", "pop"), UndoPopDraft(state),
              1, NoValue, liveTag, nextTag, NoRescale)

redo ==
  IF Len(state.undoStack) = 0 THEN Skip(Op("redo", "empty"))
  ELSE Commit(Op("redo", "push"), RedoDraft(state),
              1, NoValue, liveTag, nextTag, NoRescale)

\* setState(this.initialState), with no completion callback
resetCanvas ==
  Commit(Op("resetAll", ""), initialState, 0, NoValue, 0, nextTag, NoRescale)

loadPaths(paths) ==
  /\ nextTag + Len(paths) <= MaxStrokes
  /\ Commit(Op("loadPaths", ""), LoadPathsDraft(state, Tagged(paths, nextTag)),
            1, NoValue, liveTag, nextTag + Len(paths), NoRescale)

loadTexts(texts) ==
  /\ Len(state.currentTexts) + Len(texts) <= MaxTexts
  /\ Commit(Op("loadTexts", ""), LoadTextsDraft(state, texts),
            1, NoValue, liveTag, nextTag, NoRescale)

ExportPaths ==
  Commit(Op("exportPaths", ""), state, 0, [value |-> exportPaths(state)],
         liveTag, nextTag, rescaleIn)

ExportTexts ==
  Commit(Op("exportTexts", ""), state, 0, [value |-> exportTexts(state)],
         liveTag, nextTag, rescaleIn)

(* ------------- ReactSketchCanvas: batched state updates ---------------- *)

\* Inside one React batch setState only queues its updater: this.state keeps the
\* committed value until the batch is flushed, and the updaters then run in order,
\* each on the draft its predecessor left.  An operation reads its guard from
\* this.state when it is called and its updater reads the draft when it runs.

Updater(name, point, tag, mode) ==
  [name |-> name, point |-> point, tag |-> tag, mode |-> mode]

\* the operation returned without calling setState
NoUpdater == Updater("none", P1, 0, "none")

\* the updater each operation passes to setState when this.state is st
PointerDownUpdater(st, point, tag) ==
  IF ~isDrawingMode(st)
  THEN IF st.drawMode = "none" THEN NoUpdater
       ELSE Updater("textInsert", point, 0, "none")
  ELSE Updater("strokeStart", point, tag, "none")

PointerMoveUpdater(st, point) ==
  IF ~st.isDrawing THEN NoUpdater ELSE Updater("move", point, 0, "none")

PointerUpUpdater(st) ==
  IF ~st.isDrawing THEN NoUpdater ELSE Updater("up", P1, 0, "none")

UndoUpdater(st) ==
  IF Len(st.resetStack) # 0 THEN Updater("undoReset", P1, 0, "none")
  ELSE Updater("undoPop", P1, 0, "none")

RedoUpdater(st) ==
  IF Len(st.undoStack) = 0 THEN NoUpdater ELSE Updater("redo", P1, 0, "none")

\* the updater throws on the draft st
UpdaterThrows(st, u) == u.name = "move" /\ st.currentPaths = <<>>

\* the draft the updater u leaves of the draft st
ApplyUpdater(st, u) ==
  CASE u.name = "textInsert" -> TextInsertDraft(st, u.point, clock)
    [] u.name = "strokeStart" ->
         StrokeStartDraft(st, u.point, clock, u.tag, withTimestamp)
    [] u.name = "move" -> PointerMoveDraft(st, u.point)
    [] u.name = "up" -> PointerUpDraft(st, clock, withTimestamp)
    [] u.name = "setMode" -> SetModeDraft(st, u.mode)
    [] u.name = "clear" -> ClearDraft(st)
    [] u.name = "undoReset" -> UndoResetDraft(st)
    [] u.name = "undoPop" -> UndoPopDraft(st)
    [] u.name = "redo" -> RedoDraft(st)
    [] OTHER -> st

\* the flush: the queued updaters in order; ok is FALSE when one of them throws
RECURSIVE RunUpdaters(_, _)
RunUpdaters(st, queue) ==
  IF queue = <<>> THEN [st |-> st, ok |-> TRUE]
  ELSE IF UpdaterThrows(st, Head(queue)) THEN [st |-> st, ok |-> FALSE]
  ELSE RunUpdaters(ApplyUpdater(st, Head(queue)), Tail(queue))

\* an operation called inside a batch: its updater, chosen on this.state, is
\* queued; shadow takes the updater chosen on shadow itself.  A batch starts from
\* a state the batches before it left as running them in sequence would have.
Issue(u, us, ntag) ==
  /\ ~crashed
  /\ pending = <<>> => state = shadow
  /\ ~UpdaterThrows(shadow, us)
  /\ u # NoUpdater => Len(pending) < MaxPending
  /\ pending' = IF u = NoUpdater THEN pending ELSE Append(pending, u)
  /\ shadow' = ApplyUpdater(shadow, us)
  /\ nextTag' = ntag
  /\ UNCHANGED <<state, withTimestamp, allowOnlyPointerType, listenerType,
                 lastMouseEvent, pointer, clock, crashed, lastOp, notified, ret,
                 liveTag, fwd, clearUndo, preClear, rescaleIn, scen, scenAB>>

BatchedSetMode ==
  \E mode \in {"pen", "eraser"} :
    Issue(Updater("setMode", P1, 0, mode), Updater("setMode", P1, 0, mode), nextTag)

BatchedPointerDown ==
  /\ nextTag < MaxStrokes
  /\ Issue(PointerDownUpdater(state, P1, nextTag + 1),
           PointerDownUpdater(shadow, P1, nextTag + 1), nextTag + 1)

BatchedPointerMove ==
  /\ shadow.currentPaths # <<>> => Len(Last(shadow.currentPaths).paths) < MaxPoints
  /\ Issue(PointerMoveUpdater(state, P2), PointerMoveUpdater(shadow, P2), nextTag)

BatchedPointerUp == Issue(PointerUpUpdater(state), PointerUpUpdater(shadow), nextTag)

BatchedClear ==
  Issue(Updater("clear", P1, 0, "none"), Updater("clear", P1, 0, "none"), nextTag)

BatchedUndo == Issue(UndoUpdater(state), UndoUpdater(shadow), nextTag)

BatchedRedo == Issue(RedoUpdater(state), RedoUpdater(shadow), nextTag)

\* React applies the batch and calls the completion callbacks
Flush ==
  /\ ~crashed
  /\ pending # <<>>
  /\ pending' = <<>>
  /\ IF RunUpdaters(state, pending).ok
     THEN /\ state' = RunUpdaters(state, pending).st
          /\ notified' = Len(pending)
          /\ UNCHANGED crashed
     ELSE /\ crashed' = TRUE
          /\ notified' = 0
          /\ UNCHANGED state
  /\ UNCHANGED <<withTimestamp, allowOnlyPointerType, listenerType, shadow,
                 lastMouseEvent, pointer, clock, lastOp, ret, nextTag, liveTag, fwd,
                 clearUndo, preClear, rescaleIn, scen, scenAB>>

(* ----------------------- Canvas: the handlers -------------------------- *)

Filtered(event) ==
  allowOnlyPointerType # "all" /\ event.pointerType # allowOnlyPointerType

NonPrimary(event) == event.pointerType = "mouse" /\ event.button # 0

\* the kind of a press or a release: of another pointer type than the one allowed,
\* else of a mouse button other than the primary one, else "ok"
Kind(event) ==
  IF Filtered(event) THEN "type" ELSE IF NonPrimary(event) THEN "button" ELSE "ok"

\* no pointer event: the Canvas's record of the last one stays
NoPointer == pointer' = "" /\ UNCHANGED lastMouseEvent

Canvas_handlePointerDown(event) ==
  /\ pointer' = Kind(event)
  /\ lastMouseEvent' = event.point
  /\ IF ~state.isDrawing /\ event.target \in {"text", "INPUT"}
     THEN Skip(Op("pointerDown", "target"))
     ELSE IF Filtered(event) THEN Skip(Op("pointerDown", "type"))
     ELSE IF NonPrimary(event) THEN Skip(Op("pointerDown", "button"))
     ELSE handlePointerDown(event.point)

Canvas_handlePointerMove(event) ==
  /\ pointer' = IF Filtered(event) THEN "type" ELSE "ok"
  /\ lastMouseEvent' = event.point
  /\ IF ~state.isDrawing THEN Skip(Op("pointerMove", "idle"))
     ELSE IF Filtered(event) THEN Skip(Op("pointerMove", "type"))
     ELSE handlePointerMove(event.point)

\* an accepted release is marked "up"
UpKind(event) == IF Kind(event) = "ok" THEN "up" ELSE Kind(event)

Canvas_handlePointerUp(event) ==
  /\ pointer' = UpKind(event)
  /\ IF NonPrimary(event)
     THEN Skip(Op("pointerUp", "button")) /\ UNCHANGED lastMouseEvent
     ELSE /\ lastMouseEvent' = event.point
          /\ IF Filtered(event) THEN Skip(Op("pointerUp", "type"))
             ELSE handlePointerUp

\* the pointerup listener of the document: the handlePointerUp of the first render,
\* registered once by an effect without dependencies, with the allowOnlyPointerType
\* of that render in its closure
Document_handlePointerUp(event) ==
  /\ pointer' = UpKind(event)
  /\ IF NonPrimary(event)
     THEN Skip(Op("pointerUp", "button")) /\ UNCHANGED lastMouseEvent
     ELSE /\ lastMouseEvent' = event.point
          /\ IF listenerType # "all" /\ event.pointerType # listenerType
             THEN Skip(Op("pointerUp", "type"))
             ELSE handlePointerUp

\* exportSvg of the Canvas; mounted is canvasRef.current !== null
Canvas_exportSvg(props, mounted) ==
  IF mounted
  THEN Commit(Op("exportSvg", "ok"), state, 0,
              [props |-> props,
               value |-> ExportSvgText(props, Render(props, state.currentPaths))],
              liveTag, nextTag, NoRescale)
  ELSE Commit(Op("exportSvg", "throw"), state, 0,
              [error |-> "Canvas not loaded"], liveTag, nextTag, NoRescale)

(* ------------------- exports: how a call can end ---------------------- *)

\* the call throws before it returns a promise
Thrown(e) == [outcome |-> "thrown", error |-> e, value |-> <<>>]

\* the call returns a promise, which is rejected with e
Rejected(e) == [outcome |-> "rejected", error |-> e, value |-> <<>>]

\* the call returns a promise, which is resolved with v
Resolved(v) == [outcome |-> "resolved", error |-> "", value |-> v]

\* what the export finds: the controller's ref to the Canvas set, the Canvas's
\* div rendered, the images decoding, the 2d context at hand
ExportEnv ==
  [ref : BOOLEAN, mounted : BOOLEAN, sceneLoads : BOOLEAN, backgroundLoads : BOOLEAN,
   context : BOOLEAN]

\* an export that the background image's decode failure rejects
Canvas_exportImageStrict(props, env) ==
  IF ~env.mounted THEN Rejected("Canvas not rendered yet")
  ELSE IF ~env.sceneLoads THEN Rejected("Image not found")
  ELSE IF props.exportWithBackgroundImage /\ ~env.backgroundLoads
       THEN Rejected("Image not found")
  ELSE IF ~env.context THEN Rejected("Canvas not rendered yet")
  ELSE IF props.exportWithBackgroundImage
       THEN Resolved(<<"background", "scene">>)
       ELSE Resolved(<<"scene">>)

\* exportImage of the Canvas, an async function: the images drawn, bottom first
Canvas_exportImage(props, env) ==
  IF ~env.mounted THEN Rejected("Canvas not rendered yet")
  ELSE IF ~env.sceneLoads THEN Rejected("Image not found")
  ELSE IF ~env.context THEN Rejected("Canvas not rendered yet")
  ELSE IF props.exportWithBackgroundImage /\ env.backgroundLoads
       THEN Resolved(<<"background", "scene">>)
       ELSE Resolved(<<"scene">>)

\* exportImage of the controller
exportImage(props, env) ==
  IF ~env.ref THEN Thrown("Export function called before canvas loaded")
  ELSE Canvas_exportImage(props, env)

\* exportSvg of the controller: a promise that takes the outcome of the Canvas's
\* exportSvg, whose throw inside the executor rejects it
exportSvg(props, env, paths) ==
  IF ~env.ref THEN Rejected("Export function called before canvas loaded")
  ELSE IF ~env.mounted THEN Rejected("Canvas not loaded")
  ELSE Resolved(ExportSvgText(props, Render(props, paths)))

\* the reduce of getSketchingTime over the strokes, a missing timestamp read as 0
RECURSIVE SketchingTime(_, _)
SketchingTime(paths, total) ==
  IF paths = <<>> THEN total
  ELSE LET path == Head(paths)
           startTimestamp == IF "startTimestamp" \in DOMAIN path
                             THEN path.startTimestamp ELSE 0
           endTimestamp == IF "endTimestamp" \in DOMAIN path
                           THEN path.endTimestamp ELSE 0
       IN  SketchingTime(Tail(paths), total + (endTimestamp - startTimestamp))

\* a sketching time that is answered without the withTimestamp prop
getSketchingTimeAlways(st, withTs) ==
  Resolved(SketchingTime(st.currentPaths, 0))

\* getSketchingTime: the promise is rejected first when timestamps are off, and
\* the resolve that follows has no effect
getSketchingTime(st, withTs) ==
  IF ~withTs THEN Rejected("Set 'withTimestamp' prop to get sketching time")
  ELSE Resolved(SketchingTime(st.currentPaths, 0))

(* ------------------------------ Next ----------------------------------- *)

PointerDown == \E event \in Events : Canvas_handlePointerDown(event)

PointerMove ==
  \E event \in Events : event.target = "svg" /\ Canvas_handlePointerMove(event)

PointerUp ==
  \E event \in Events : event.target = "svg" /\ Canvas_handlePointerUp(event)

TextChange ==
  /\ \E oldText \in HostLabels, newText \in EditedLabels :
       handleTextChange(oldText, newText)
  /\ NoPointer

SetMode == (\E mode \in CanvasMode : setMode(mode)) /\ NoPointer

AdjustProportion ==
  /\ \E imagescale \in Scales, paths \in HostPaths, texts \in HostTexts :
       adjustProportion(imagescale, paths, texts)
  /\ NoPointer

ClearCanvas == clearCanvas /\ NoPointer

Undo == undo /\ NoPointer

Redo == redo /\ NoPointer

ResetCanvas == resetCanvas /\ NoPointer

LoadPaths == (\E paths \in HostPaths : loadPaths(paths)) /\ NoPointer

LoadTexts == (\E texts \in HostTexts : loadTexts(texts)) /\ NoPointer

Export == (ExportPaths \/ ExportTexts) /\ NoPointer

ExportSvg ==
  /\ \/ \E props \in CanvasProps : Canvas_exportSvg(props, TRUE)
     \/ \E props \in CanvasProps :
          ~props.exportWithBackgroundImage /\ props.backgroundImage = ""
          /\ props.canvasColor = "white" /\ Canvas_exportSvg(props, FALSE)
  /\ NoPointer

\* the host asks the controller for the image
ExportImage ==
  /\ \E props \in CanvasProps, env \in ExportEnv :
       Commit(Op("exportImage", ""), state, 0,
              [call |-> "exportImage", props |-> props, env |-> env,
               result |-> exportImage(props, env)],
              liveTag, nextTag, NoRescale)
  /\ NoPointer

\* the host asks the controller for the SVG text
ControllerExportSvg ==
  /\ \E props \in CanvasProps, env \in ExportEnv :
       /\ env.sceneLoads /\ env.backgroundLoads /\ env.context
       /\ Commit(Op("exportSvg", ""), state, 0,
                 [call |-> "exportSvg", props |-> props, env |-> env,
                  result |-> exportSvg(props, env, state.currentPaths)],
                 liveTag, nextTag, NoRescale)
  /\ NoPointer

\* the host asks for the time spent sketching
GetSketchingTime ==
  /\ Commit(Op("getSketchingTime", ""), state, 0,
            [call |-> "getSketchingTime",
             result |-> getSketchingTime(state, withTimestamp)],
            liveTag, nextTag, NoRescale)
  /\ NoPointer

\* time passes
Tick ==
  /\ ~crashed
  /\ clock < MaxClock
  /\ clock' = clock + 1
  /\ UNCHANGED <<state, withTimestamp, allowOnlyPointerType, listenerType, pending,
                 shadow, lastMouseEvent, pointer, crashed, lastOp, notified, ret, nextTag, liveTag, fwd, clearUndo,
                 preClear, rescaleIn, scen, scenAB>>

\* a release outside the drawing surface reaches the document's listener alone
DocumentPointerUp ==
  \E event \in {Event("mouse", 0, P2, "body"), Event("touch", 0, P1, "body"),
                 Event("mouse", 2, P2, "body")} :
    Document_handlePointerUp(event)

\* the host renders the component again with another allowOnlyPointerType
SetPointerType ==
  /\ ~crashed
  /\ allowOnlyPointerType' \in {"all", "touch"} \ {allowOnlyPointerType}
  /\ pointer' = ""
  /\ UNCHANGED <<state, withTimestamp, listenerType, pending, shadow, lastMouseEvent,
                 clock, crashed, lastOp, notified, ret, nextTag, liveTag, fwd, clearUndo, preClear,
                 rescaleIn, scen, scenAB>>

\* a primary-button mouse press at P1, then a drag to and a release at P2
Press == Canvas_handlePointerDown(Event("mouse", 0, P1, "svg"))

Drag == Canvas_handlePointerMove(Event("mouse", 0, P2, "svg"))

Release == Canvas_handlePointerUp(Event("mouse", 0, P2, "svg"))

\* the component as constructed, with the props as defaultProps sets them
Init == Start({FALSE}, {"all"})

\* the component as constructed, with and without a restricted pointer type
InitInput == Start({FALSE}, {"all", "touch"})

\* the sketch and its history: drawing, label placement, undo, redo, clear, reset
Next ==
  \/ Press
  \/ Drag
  \/ Release
  \/ SetMode
  \/ ClearCanvas
  \/ Undo
  \/ Redo
  \/ ResetCanvas

Spec == Init /\ [][Next]_vars

\* the same with strokes and labels loaded by the host
NextLoad ==
  \/ Next
  \/ LoadPaths
  \/ LoadTexts

SpecLoad == Init /\ [][NextLoad]_vars

SetPen == setMode("pen") /\ NoPointer

\* pointer input of every kind, with and without a restricted pointer type
NextInput ==
  \/ PointerDown
  \/ PointerMove
  \/ PointerUp
  \/ SetPen

SpecInput == InitInput /\ [][NextInput]_vars

\* pointer input on and off the surface, while the host may change the pointer type
NextRelease ==
  \/ PointerDown
  \/ PointerMove
  \/ PointerUp
  \/ DocumentPointerUp
  \/ SetPen
  \/ SetPointerType

SpecRelease == InitInput /\ [][NextRelease]_vars

\* operations called back-to-back inside one batch
NextBatched ==
  \/ BatchedSetMode
  \/ BatchedPointerDown
  \/ BatchedPointerMove
  \/ BatchedPointerUp
  \/ BatchedClear
  \/ BatchedUndo
  \/ BatchedRedo
  \/ Flush

SpecBatched == Init /\ [][NextBatched]_vars

\* the display scale: rescale, load and export
NextScale ==
  \/ AdjustProportion
  \/ LoadPaths
  \/ LoadTexts
  \/ Export

SpecScale == Init /\ [][NextScale]_vars

\* the scene: the Canvas renders and exports a list of strokes it is handed
SceneStrokes == {HostStroke("pen", <<P1>>), HostStroke("eraser", <<P1>>)}

RECURSIVE Scenes(_)
Scenes(n) ==
  IF n = 0 THEN {<<>>}
  ELSE Scenes(n - 1) \cup {Append(sc, k) : sc \in Scenes(n - 1), k \in SceneStrokes}

LoadScene ==
  /\ nextTag = 0
  /\ \E paths \in Scenes(MaxScene) :
       Commit(Op("loadPaths", ""), LoadPathsDraft(state, Tagged(paths, nextTag)),
              1, NoValue, liveTag, Len(paths), NoRescale)
  /\ NoPointer

NextScene ==
  \/ LoadScene
  \/ ExportSvg

SpecScene == Init /\ [][NextScene]_vars

\* the exports through the controller
NextExport ==
  \/ ExportImage
  \/ ControllerExportSvg

SpecExport == Init /\ [][NextExport]_vars

\* the component is built with or without timestamps
InitTime == Start({FALSE, TRUE}, {"all"})

\* strokes are drawn and loaded while time passes, and the time is asked for
NextTime ==
  \/ SetPen
  \/ Press
  \/ Drag
  \/ Release
  \/ Undo
  \/ LoadPaths
  \/ Tick
  \/ GetSketchingTime

SpecTime == InitTime /\ [][NextTime]_vars

\* labels are placed, loaded, edited and cleared while time passes
NextLabels ==
  \/ SetMode
  \/ Press
  \/ Tick
  \/ LoadTexts
  \/ TextChange
  \/ ClearCanvas

SpecLabels == Init /\ [][NextLabels]_vars

\* the host rescales in the middle of drawing, undoing and clearing
NextRescale ==
  \/ SetMode
  \/ Press
  \/ Release
  \/ Undo
  \/ ClearCanvas
  \/ AdjustProportion

SpecRescale == Init /\ [][NextRescale]_vars

(* ------------------------------ claims --------------------------------- *)

\* C1: clear() immediately followed by undo() restores the stroke list to exactly
\* what it was before the clear, for any stroke list, the empty one included.
C1_ClearUndoRestores == clearUndo = 2 => state.currentPaths = preClear

\* clear and undo have run on a list of two strokes, one of them with two points
C1_Witness ==
  /\ clearUndo = 2
  /\ Len(preClear) = 2
  /\ \E i \in DOMAIN preClear : Len(preClear[i].paths) = 2
  /\ state.resetStack = <<>>

\* C2: a pointerDown that starts a stroke or places a label leaves undoStack empty
\* whatever it held, and a redo() issued right after it changes nothing of the
\* strokes, the labels or the stacks.
C2_PressDropsRedo ==
  [][/\ lastOp' \in {Op("pointerDown", "stroke"), Op("pointerDown", "text")}
        => state'.undoStack = <<>>
     /\ (/\ lastOp \in {Op("pointerDown", "stroke"), Op("pointerDown", "text")}
         /\ lastOp'.name = "redo")
        => state' = state /\ notified' = 0]_vars

\* a press found redo history, and redo was called right after it
C2_Witness ==
  /\ fwd = 2
  /\ lastOp = Op("redo", "empty")
  /\ state.currentPaths # <<>>

\* C3: starting empty, draw pen stroke A, draw eraser stroke B, clear(), undo()
\* gives strokes [A, B]; a second undo() gives strokes [A] and undoStack [B].
C3_Scenario ==
  /\ scen >= 7 => /\ Len(scenAB) = 2
                  /\ scenAB[1].drawMode = "pen"
                  /\ scenAB[2].drawMode = "eraser"
  /\ scen = 8 => state.currentPaths = scenAB /\ state.resetStack = <<>>
  /\ scen = 9 => /\ state.currentPaths = <<scenAB[1]>>
                 /\ state.undoStack = <<scenAB[2]>>

\* the scenario has run to its end
C3_Witness == scen = 9 /\ Len(scenAB) = 2 /\ scenAB[1] # scenAB[2]

\* C4: every operation that changes the component state is followed by an onUpdate
\* notification (of the scale-normalized strokes and labels of the new state).
C4_MutationNotifies == [][state' # state => notified' >= 1]_vars

\* C5 as claimed: rescale(s, strokes, labels) followed by exportStrokes() and
\* exportLabels() returns geometry equal to the input geometry.
C5_RoundTripEqual ==
  /\ (lastOp = Op("exportPaths", "") /\ rescaleIn # NoRescale)
       => ret.value = rescaleIn.paths
  /\ (lastOp = Op("exportTexts", "") /\ rescaleIn # NoRescale)
       => ret.value = rescaleIn.texts

PointClose(r, x) == Close(r.x, x.x) /\ Close(r.y, x.y)

PathsClose(rs, xs) ==
  /\ Len(rs) = Len(xs)
  /\ \A i \in DOMAIN rs :
       /\ [rs[i] EXCEPT !.paths = <<>>] = [xs[i] EXCEPT !.paths = <<>>]
       /\ Len(rs[i].paths) = Len(xs[i].paths)
       /\ \A j \in DOMAIN rs[i].paths : PointClose(rs[i].paths[j], xs[i].paths[j])

TextsClose(rs, xs) ==
  /\ Len(rs) = Len(xs)
  /\ \A i \in DOMAIN rs :
       /\ rs[i].id = xs[i].id
       /\ rs[i].text = xs[i].text
       /\ PointClose(rs[i].position, xs[i].position)

\* C5 as amended: rescale(s, strokes, labels) followed by exportStrokes() and
\* exportLabels() returns the input strokes and labels in the same order with the
\* same number of points, every coordinate within the relative error
\* 2^(2 - Precision) of its input value (the roundings of x * s, 1 / s and their
\* product), and every other field equal.
C5_RoundTripClose ==
  /\ (lastOp = Op("exportPaths", "") /\ rescaleIn # NoRescale)
       => PathsClose(ret.value, rescaleIn.paths)
  /\ (lastOp = Op("exportTexts", "") /\ rescaleIn # NoRescale)
       => TextsClose(ret.value, rescaleIn.texts)

\* strokes rescaled by 5 have been exported, and a coordinate came back changed
C5_Witness ==
  /\ lastOp = Op("exportPaths", "")
  /\ rescaleIn # NoRescale
  /\ rescaleIn.scale = Num(5)
  /\ Len(rescaleIn.paths) >= 1
  /\ ret.value # rescaleIn.paths

\* C6: isDrawing is true exactly when the last element of strokes is the stroke
\* begun by the most recent pointerDown and not yet ended.
C6_DrawingIffLastStrokeLive ==
  state.isDrawing <=>
    /\ liveTag # 0
    /\ state.currentPaths # <<>>
    /\ Last(state.currentPaths).tag = liveTag

\* the strokes held anywhere: drawn, undone, or cleared
AllStrokes(st) ==
  {st.currentPaths[i] : i \in DOMAIN st.currentPaths}
  \cup {st.undoStack[i] : i \in DOMAIN st.undoStack}
  \cup {st.resetStack[i] : i \in DOMAIN st.resetStack}

\* C7: the points of a stroke change only while it is the stroke begun by the
\* latest pointerDown and not yet ended; a finalized stroke keeps its points.
C7_FinalizedImmutable ==
  [][\A a \in AllStrokes(state), b \in AllStrokes(state') :
       (a.tag = b.tag /\ a.paths # b.paths) => (state.isDrawing /\ a.tag = liveTag)]_vars

\* the eraser strokes (by tag) the mask of group g shows; none when the <defs>
\* hold no mask of that index
MaskErasers(svg, paths, g) ==
  IF g \in DOMAIN svg.masks
  THEN {eraserPaths(paths)[k + 1].tag : k \in svg.masks[g]}
  ELSE {}

\* the eraser strokes (by tag) after the stroke of tag t in the stroke order
LaterErasers(paths, t) ==
  {paths[j].tag : j \in {k \in DOMAIN paths :
      /\ paths[k].drawMode = "eraser"
      /\ \E i \in DOMAIN paths : paths[i].tag = t /\ i < k}}

\* C8: the mask applied to a stroke group contains exactly the eraser strokes that
\* occur later in the stroke order than the group's strokes.
C8_MaskIsLaterErasers ==
  lastOp = Op("exportSvg", "ok") =>
    \A g \in DOMAIN ret.value.groups :
      \A i \in DOMAIN ret.value.groups[g].paths :
        MaskErasers(ret.value, state.currentPaths, ret.value.groups[g].mask)
          = LaterErasers(state.currentPaths, ret.value.groups[g].paths[i].tag)

\* a scene of an eraser, a pen stroke and an eraser has been rendered: the pen
\* stroke's group is masked by the second eraser alone
C8_Witness ==
  /\ lastOp = Op("exportSvg", "ok")
  /\ Len(state.currentPaths) = 3
  /\ state.currentPaths[1].drawMode = "eraser"
  /\ state.currentPaths[2].drawMode = "pen"
  /\ state.currentPaths[3].drawMode = "eraser"
  /\ MaskErasers(ret.value, state.currentPaths, 1) = {state.currentPaths[3].tag}

\* C9: exportSvg with the background image left out returns markup without the
\* background pattern and with the background rect filled with canvasColor,
\* whether or not a background image is configured.
C9_NoBackgroundInExport ==
  (lastOp = Op("exportSvg", "ok") /\ ~ret.props.exportWithBackgroundImage)
    => /\ ~ret.value.pattern
       /\ ret.value.backgroundFill = ret.props.canvasColor

\* such an export has been made with a background image configured
C9_Witness ==
  /\ lastOp = Op("exportSvg", "ok")
  /\ ~ret.props.exportWithBackgroundImage
  /\ ret.props.backgroundImage # ""
  /\ ret.value.backgroundFill = "blue"

\* C10: a press, move or release of another pointer type than the one allowed,
\* and a mouse press or release with a non-primary button, changes nothing: not
\* the component state, not the recorded last pointer event, and notifies nobody.
C10_FilteredChangesNothing ==
  [][pointer' \in {"type", "button"}
       => /\ state' = state
          /\ notified' = 0
          /\ lastMouseEvent' = lastMouseEvent]_vars

\* C11: whenever a stroke is in progress and an accepted pointer release occurs,
\* on or off the drawing surface, pointerUp is delivered and isDrawing becomes
\* false.
C11_ReleaseEndsStroke ==
  [][(pointer' = "up" /\ state.isDrawing) => ~state'.isDrawing]_vars

\* C12: operations issued back-to-back before a deferred state update is applied
\* behave as if run one after another: once the updates are applied the state is
\* the one reached by running each operation on the result of the one before it.
C12_BatchedAsSequential == pending = <<>> => (~crashed /\ state = shadow)

\* the export was asked for before the surface was mounted or laid out
NotReady(r) == ~r.env.ref \/ ~r.env.mounted

\* C13: an image or SVG export requested before the drawing surface is mounted
\* or laid out ends as a rejected promise: it neither throws past the promise
\* nor resolves.
C13_NotReadyRejects ==
  (ret # NoValue /\ NotReady(ret)) => ret.result.outcome = "rejected"

\* C14: in an image export that includes the background image, a decode failure
\* of the background image does not fail the export, which ends as it would
\* without the background and, nothing else failing, resolves with the scene
\* alone; a decode failure of the scene image always fails the export.
C14_BackgroundOptional ==
  (ret # NoValue /\ ret.call = "exportImage") =>
    /\ ~ret.env.sceneLoads => ret.result.outcome # "resolved"
    /\ (ret.props.exportWithBackgroundImage /\ ~ret.env.backgroundLoads) =>
         /\ ret.result
              = exportImage([ret.props EXCEPT !.exportWithBackgroundImage = FALSE],
                            ret.env)
         /\ (ret.env.ref /\ ret.env.mounted /\ ret.env.sceneLoads /\ ret.env.context)
              => ret.result = Resolved(<<"scene">>)

\* an export with the background included has resolved with the scene alone,
\* the background image having failed to decode
C14_Witness ==
  /\ ret # NoValue
  /\ ret.call = "exportImage"
  /\ ret.props.exportWithBackgroundImage
  /\ ret.props.backgroundImage # ""
  /\ ~ret.env.backgroundLoads
  /\ ret.result = Resolved(<<"scene">>)

RECURSIVE TimestampSum(_, _)
TimestampSum(paths, field) ==
  IF paths = <<>> THEN 0
  ELSE (IF field \in DOMAIN Head(paths) THEN Head(paths)[field] ELSE 0)
       + TimestampSum(Tail(paths), field)

\* C15: without timestamps getSketchingTime is rejected with the configuration
\* error in every state and never resolves; with timestamps it resolves with the
\* sum of endTimestamp - startTimestamp over the strokes of currentPaths.
C15_SketchingTime ==
  (ret # NoValue /\ ret.call = "getSketchingTime") =>
    IF ~withTimestamp
    THEN /\ ret.result.outcome = "rejected"
         /\ ret.result.error = "Set 'withTimestamp' prop to get sketching time"
    ELSE /\ ret.result.outcome = "resolved"
         /\ ret.result.value = TimestampSum(state.currentPaths, "endTimestamp")
                                - TimestampSum(state.currentPaths, "startTimestamp")

\* the time of a finished stroke that took time has been answered
C15_Witness ==
  /\ ret # NoValue
  /\ ret.call = "getSketchingTime"
  /\ withTimestamp
  /\ ~state.isDrawing
  /\ state.currentPaths # <<>>
  /\ ret.result.outcome = "resolved"
  /\ ret.result.value > 0

\* C16: in every reachable state no two labels of currentTexts have the same id,
\* whatever labels were placed, with or without time passing in between, and
\* whatever lists were loaded.
C16_LabelIdsUnique ==
  \A i, j \in DOMAIN state.currentTexts :
    state.currentTexts[i].id = state.currentTexts[j].id => i = j

\* C17: right after clearCanvas, resetStack is exactly the currentPaths the call
\* found, whatever resetStack held before, and currentPaths and currentTexts
\* are empty.
C17_ClearOneGeneration ==
  clearUndo = 1 =>
    /\ state.resetStack = preClear
    /\ state.currentPaths = <<>>
    /\ state.currentTexts = <<>>

\* clearCanvas has just moved the second stroke alone into resetStack
C17_Witness ==
  /\ clearUndo = 1
  /\ Len(preClear) = 1
  /\ preClear[1].tag = 2
  /\ state.resetStack = preClear

\* r is the quotient x / s, correctly rounded
Quotient(r, x, s) == r = FDiv(x, s)

\* r * s is x up to the relative error 2^(2 - Precision)
QuotientClose(r, x, s) == Close(<<r[1] * s[1], r[2] + s[2]>>, x)

PointDivided(Q(_, _, _), r, x, s) == Q(r.x, x.x, s) /\ Q(r.y, x.y, s)

PathsDivided(Q(_, _, _), rs, xs, s) ==
  /\ Len(rs) = Len(xs)
  /\ \A i \in DOMAIN rs :
       /\ [rs[i] EXCEPT !.paths = <<>>] = [xs[i] EXCEPT !.paths = <<>>]
       /\ Len(rs[i].paths) = Len(xs[i].paths)
       /\ \A j \in DOMAIN rs[i].paths :
            PointDivided(Q, rs[i].paths[j], xs[i].paths[j], s)

TextsDivided(Q(_, _, _), rs, xs, s) ==
  /\ Len(rs) = Len(xs)
  /\ \A i \in DOMAIN rs :
       /\ [rs[i] EXCEPT !.position = Zero] = [xs[i] EXCEPT !.position = Zero]
       /\ PointDivided(Q, rs[i].position, xs[i].position, s)

ExportsDivide(Q(_, _, _)) ==
  /\ lastOp' = Op("exportPaths", "") =>
       /\ state' = state
       /\ PathsDivided(Q, ret'.value, state.currentPaths, state.imageScale)
  /\ lastOp' = Op("exportTexts", "") =>
       /\ state' = state
       /\ TextsDivided(Q, ret'.value, state.currentTexts, state.imageScale)

\* C18: exportPaths and exportTexts return the current strokes and labels with
\* every coordinate divided by the current scale, and leave every field of the
\* state as it was.
C18_ExportsDivide == [][ExportsDivide(Quotient)]_vars

\* C18 as amended: exportPaths and exportTexts return the current strokes and
\* labels, same order, same number of points and every other field equal, with
\* every coordinate multiplied by the rounded reciprocal of the current scale,
\* which is the quotient by the scale up to the relative error 2^(2 - Precision);
\* they leave every field of the state as it was.
C18_ExportsDivideClose == [][ExportsDivide(QuotientClose)]_vars

\* strokes stored at a scale other than 1 have been exported, and a coordinate
\* is not the correctly rounded quotient
C18_Witness ==
  /\ lastOp = Op("exportPaths", "")
  /\ state.imageScale # Num(1)
  /\ state.currentPaths # <<>>
  /\ ret.value # state.currentPaths
  /\ ~PathsDivided(Quotient, ret.value, state.currentPaths, state.imageScale)

\* the first stroke has the style of a stroke begun at point in mode
BegunIn(stroke, mode, point) ==
  /\ stroke.drawMode = mode
  /\ stroke.paths = <<point>>
  /\ mode = "pen" => stroke.strokeColor = strokeColor /\ stroke.strokeWidth = strokeWidth
  /\ mode = "eraser" => stroke.strokeColor = "#000000" /\ stroke.strokeWidth = eraserWidth

\* C19: a pointer press at p that begins a stroke appends to currentPaths, as its
\* last element, a stroke with the points [p] that records the mode of the press,
\* with strokeColor and strokeWidth in mode pen and with the colour #000000 and
\* eraserWidth in mode eraser, and sets isDrawing.
C19_StrokeBegun ==
  [][lastOp' = Op("pointerDown", "stroke") =>
       /\ state.drawMode \in {"pen", "eraser"}
       /\ state'.isDrawing
       /\ state'.drawMode = state.drawMode
       /\ Len(state'.currentPaths) = Len(state.currentPaths) + 1
       /\ Front(state'.currentPaths) = state.currentPaths
       /\ BegunIn(Last(state'.currentPaths), state.drawMode, lastMouseEvent')]_vars

\* an eraser stroke has just been begun after a first stroke
C19_Witness ==
  /\ lastOp = Op("pointerDown", "stroke")
  /\ state.drawMode = "eraser"
  /\ state.isDrawing
  /\ Len(state.currentPaths) = 2
  /\ state.currentPaths[1].drawMode = "pen"
  /\ BegunIn(state.currentPaths[2], "eraser", lastMouseEvent)

\* where the stroke at position i of paths appears: <<group, place in the group>>
PlacesOf(groups, paths, i) ==
  {gk \in UNION {{<<g, k>> : k \in DOMAIN groups[g].paths} : g \in DOMAIN groups} :
     groups[gk[1]].paths[gk[2]].tag = paths[i].tag}

\* the strokes of the eraser list among the first i strokes
ErasersUpTo(paths, i) == Len(eraserPaths(SubSeq(paths, 1, i)))

\* C20: in the rendered scene every pen stroke is in exactly one stroke group and
\* no eraser stroke is in any; the group of a pen stroke is the number of strokes
\* of the eraser list drawn before it, so that a group starts at each eraser
\* stroke and at nothing else; the strokes of a group are in draw order.
C20_GroupsPartition ==
  lastOp = Op("exportSvg", "ok") =>
    LET groups == ret.value.groups
        paths == state.currentPaths
    IN  /\ \A i \in DOMAIN paths :
             IF paths[i].drawMode = "eraser"
             THEN PlacesOf(groups, paths, i) = {}
             ELSE /\ Cardinality(PlacesOf(groups, paths, i)) = 1
                  /\ \A gk \in PlacesOf(groups, paths, i) :
                       /\ gk[1] = ErasersUpTo(paths, i)
                       /\ groups[gk[1]].paths[gk[2]] = paths[i]
        /\ \A i, j \in DOMAIN paths :
             (i < j /\ paths[i].drawMode = "pen" /\ paths[j].drawMode = "pen") =>
               \A a \in PlacesOf(groups, paths, i), b \in PlacesOf(groups, paths, j) :
                 a[1] < b[1] \/ (a[1] = b[1] /\ a[2] < b[2])
        /\ \A g \in DOMAIN groups : g \in 0..Len(eraserPaths(paths))
        /\ DOMAIN ret.value.masks = 0..(Len(eraserPaths(paths)) - 1)

\* a scene of two pen strokes and an eraser between them has been rendered in two
\* groups
C20_Witness ==
  /\ lastOp = Op("exportSvg", "ok")
  /\ Len(state.currentPaths) = 3
  /\ state.currentPaths[1].drawMode = "pen"
  /\ state.currentPaths[2].drawMode = "eraser"
  /\ state.currentPaths[3].drawMode = "pen"
  /\ ret.value.groups[0].paths = <<state.currentPaths[1]>>
  /\ ret.value.groups[1].paths = <<state.currentPaths[3]>>

\* C21: an edit of a label changes no field of the state but currentTexts, keeps
\* the length of currentTexts and the id at every position, changes at most one
\* label, and changes nothing when no label has the id of the edited one.
C21_TextChangeFrame ==
  [][lastOp' = Op("textChange", "") =>
       LET old == state.currentTexts
           new == state'.currentTexts
       IN  /\ [state' EXCEPT !.currentTexts = <<>>] = [state EXCEPT !.currentTexts = <<>>]
           /\ Len(new) = Len(old)
           /\ \A i \in DOMAIN old : new[i].id = old[i].id
           /\ \A i, j \in DOMAIN old : (new[i] # old[i] /\ new[j] # old[j]) => i = j
           /\ (\A i \in DOMAIN old : \A o \in HostLabels : old[i].id # o.id)
                => state' = state]_vars

PathsSame(rs, xs) == rs = xs

TextsSame(rs, xs) == rs = xs

\* the step is a load that leaves all but the loaded list alone and after which
\* the export is the export before followed by the loaded list, as SameP and
\* SameT compare lists
LoadAppends(SameP(_, _), SameT(_, _)) ==
  LET pathsBefore == exportPaths(state)
      pathsAfter == exportPaths(state')
      textsBefore == exportTexts(state)
      textsAfter == exportTexts(state')
  IN  /\ lastOp' = Op("loadPaths", "") =>
           /\ [state' EXCEPT !.currentPaths = <<>>] = [state EXCEPT !.currentPaths = <<>>]
           /\ Len(pathsAfter) >= Len(pathsBefore)
           /\ SubSeq(pathsAfter, 1, Len(pathsBefore)) = pathsBefore
           /\ \E S \in HostPaths :
                SameP(SubSeq(pathsAfter, Len(pathsBefore) + 1, Len(pathsAfter)),
                      Tagged(S, nextTag))
      /\ lastOp' = Op("loadTexts", "") =>
           /\ [state' EXCEPT !.currentTexts = <<>>] = [state EXCEPT !.currentTexts = <<>>]
           /\ Len(textsAfter) >= Len(textsBefore)
           /\ SubSeq(textsAfter, 1, Len(textsBefore)) = textsBefore
           /\ \E L \in HostTexts :
                SameT(SubSeq(textsAfter, Len(textsBefore) + 1, Len(textsAfter)), L)

PointTimes(r, x, s) == r.x = FMul(x.x, s) /\ r.y = FMul(x.y, s)

\* C23: whatever the state before, adjustProportion leaves imageScale at the new
\* scale, drawMode pen, isDrawing false, undoStack and resetStack empty, and as
\* currentPaths and currentTexts exactly the strokes and labels it was given
\* with every coordinate multiplied by the new scale.
C23_RescaleReplaces ==
  lastOp = Op("rescale", "") =>
    /\ state.imageScale = rescaleIn.scale
    /\ state.drawMode = "pen"
    /\ ~state.isDrawing
    /\ state.undoStack = <<>>
    /\ state.resetStack = <<>>
    /\ Len(state.currentPaths) = Len(rescaleIn.paths)
    /\ \A i \in DOMAIN rescaleIn.paths :
         /\ [state.currentPaths[i] EXCEPT !.paths = <<>>]
              = [rescaleIn.paths[i] EXCEPT !.paths = <<>>]
         /\ Len(state.currentPaths[i].paths) = Len(rescaleIn.paths[i].paths)
         /\ \A j \in DOMAIN rescaleIn.paths[i].paths :
              PointTimes(state.currentPaths[i].paths[j], rescaleIn.paths[i].paths[j],
                         rescaleIn.scale)
    /\ Len(state.currentTexts) = Len(rescaleIn.texts)
    /\ \A i \in DOMAIN rescaleIn.texts :
         /\ [state.currentTexts[i] EXCEPT !.position = Zero]
              = [rescaleIn.texts[i] EXCEPT !.position = Zero]
         /\ PointTimes(state.currentTexts[i].position, rescaleIn.texts[i].position,
                       rescaleIn.scale)

\* a rescale by 3 has replaced an earlier stroke by the one it was given
C23_Witness ==
  /\ lastOp = Op("rescale", "")
  /\ rescaleIn.scale = Num(3)
  /\ Len(state.currentPaths) = 1
  /\ state.currentPaths[1].tag = 2
  /\ state.currentPaths[1].paths # rescaleIn.paths[1].paths
  /\ Len(state.currentTexts) = 1

\* C24: a press in mode none, a move or a release while not drawing, a redo on
\* an empty undoStack and an undo on empty resetStack and currentPaths leave
\* every field of the state as it was.
C24_NoOpsChangeNothing ==
  [][/\ (Press /\ state.drawMode = "none") => state' = state
     /\ (Drag /\ ~state.isDrawing) => state' = state
     /\ (Release /\ ~state.isDrawing) => state' = state
     /\ (Redo /\ state.undoStack = <<>>) => state' = state
     /\ (Undo /\ state.resetStack = <<>> /\ state.currentPaths = <<>>)
          => state' = state]_vars

\* undo has run on empty resetStack and currentPaths, right after a clearCanvas
\* that found no stroke, with a stroke waiting in undoStack
C24_Witness ==
  /\ clearUndo = 2
  /\ preClear = <<>>
  /\ state.currentPaths = <<>>
  /\ state.resetStack = <<>>
  /\ state.undoStack # <<>>

\* the strokes the state holds, in currentPaths, undoStack and resetStack
Held(st) == st.currentPaths \o st.undoStack \o st.resetStack

Occurrences(seq, e) == Cardinality({i \in DOMAIN seq : seq[i] = e})

SameStrokes(st, st2) ==
  \A e \in {Held(st)[i] : i \in DOMAIN Held(st)}
           \cup {Held(st2)[i] : i \in DOMAIN Held(st2)} :
    Occurrences(Held(st), e) = Occurrences(Held(st2), e)

\* C25: undo and redo discard no stroke: the strokes held in currentPaths,
\* undoStack and resetStack together, counted with multiplicity, are the same
\* before and after an undo or a redo.
C25_UndoRedoKeepStrokes == [][(Undo \/ Redo) => SameStrokes(state, state')]_vars

\* C26: undo and redo leave currentTexts as it was: a label placed in mode text
\* is not removed by undo, and the labels clearCanvas emptied stay empty after
\* the undo that restores the cleared strokes.
C26_UndoRedoKeepLabels ==
  [][(Undo \/ Redo) => state'.currentTexts = state.currentTexts]_vars

\* a label is still there after a stroke was undone and done again, with another
\* stroke left to redo
C26_Witness ==
  /\ lastOp = Op("redo", "push")
  /\ state.currentTexts # <<>>
  /\ state.undoStack # <<>>
  /\ state.currentPaths # <<>>

\* C27: with timestamps, every stroke of currentPaths that carries them has
\* endTimestamp >= startTimestamp in every reachable state, a stroke in progress
\* included, and getSketchingTime never answers a negative time.
C27_EndNotBeforeStart ==
  withTimestamp =>
    /\ \A i \in DOMAIN state.currentPaths :
         "startTimestamp" \in DOMAIN state.currentPaths[i] =>
           state.currentPaths[i].endTimestamp >= state.currentPaths[i].startTimestamp
    /\ (ret # NoValue /\ ret.call = "getSketchingTime") => ret.result.value >= 0

\* C28: every stroke group of the rendered scene refers to a mask that the scene
\* defines: its index is below the number of eraser strokes.
C28_GroupMasksDefined ==
  lastOp = Op("exportSvg", "ok") =>
    \A g \in DOMAIN ret.value.groups :
      /\ ret.value.groups[g].mask \in DOMAIN ret.value.masks
      /\ ret.value.groups[g].mask < Len(eraserPaths(state.currentPaths))

=============================================================================
